---------------------------- MODULE Spec2Model ----------------------------
(***************************************************************************)
(* Model of the interactive shell in shell_project: the command parser     *)
(* (command_parser.cpp), the session loop (shell.cpp) and the process      *)
(* manager (process_manager.cpp).                                          *)
(*                                                                         *)
(* Strings are sequences of one-character strings.  A std::unique_ptr      *)
(* result is a sequence of length 0 (nullptr) or 1 (the object).           *)
(***************************************************************************)
EXTENDS Integers, Sequences, FiniteSets, TLC

(***************************************************************************)
(* Bounds of the model.                                                    *)
(***************************************************************************)
\* Longest input line of the one-line specification, in lexical pieces.
MaxPieces == 3
\* Number of process ids the kernel hands out (pids 1..MaxPid).
MaxPid == 2
\* children of the shell at a time in the specification SpecLive
MaxChildren == 1
\* Longest pipeline handed to execute_pipeline.
MaxStages == 3
\* a segment has at most MaxTokens tokens (specification SpecSegment)
MaxTokens == 4
\* a token has at most MaxChars characters (specification SpecToken)
MaxChars == 4
\* PATH has at most MaxDirs entries (specification SpecResolve)
MaxDirs == 2

(***************************************************************************)
(* Characters and words.                                                   *)
(***************************************************************************)
EmptyStr == <<>>
W_ls == <<"l", "s">>
W_nf == <<"n", "f">>
W_exit == <<"e", "x", "i", "t">>
W_cd == <<"c", "d">>
W_pwd == <<"p", "w", "d">>
W_help == <<"h", "e", "l", "p">>
W_echo == <<"e", "c", "h", "o">>
W_export == <<"e", "x", "p", "o", "r", "t">>
W_history == <<"h", "i", "s", "t", "o", "r", "y">>

\* std::isspace in the "C" locale
isspace(c) == c \in {" ", "\t", "\n", "\r"}

\* std::isalnum over the characters the model uses
isalnum(c) ==
    c \in {"a", "c", "d", "e", "f", "h", "i", "l", "n", "o", "p", "r", "s",
           "t", "w", "x", "y", "X", "Y", "0", "1"}

\* The process environment read by std::getenv: X is set, everything else is
\* unset (getenv returns NULL, which the parser turns into "").
get_environment_variable(var_name) ==
    IF var_name = <<"X">> THEN W_ls ELSE EmptyStr

(***************************************************************************)
(* CommandParser::parse_pipeline: one scan over the characters of the line *)
(***************************************************************************)
RECURSIVE parse_pipeline_loop(_, _, _, _, _, _, _)
parse_pipeline_loop(line, i, result, current_tokens, current_token, in_single_quote, in_double_quote) ==
    IF i > Len(line)
    THEN \* "Add remaining token"
         IF current_token /= EmptyStr \/ current_tokens /= <<>>
         THEN Append(result, Append(current_tokens, current_token))
         ELSE result
    ELSE LET c == line[i] IN
         IF c = "\\" /\ i < Len(line)
         THEN parse_pipeline_loop(line, i + 2, result, current_tokens,
                                  Append(current_token, line[i + 1]),
                                  in_single_quote, in_double_quote)
         ELSE IF c = "'" /\ ~in_double_quote
         THEN parse_pipeline_loop(line, i + 1, result, current_tokens,
                                  current_token, ~in_single_quote,
                                  in_double_quote)
         ELSE IF c = "\"" /\ ~in_single_quote
         THEN parse_pipeline_loop(line, i + 1, result, current_tokens,
                                  current_token, in_single_quote,
                                  ~in_double_quote)
         ELSE IF c = "|" /\ ~in_single_quote /\ ~in_double_quote
         THEN LET toks == IF current_token /= EmptyStr \/ current_tokens /= <<>>
                          THEN Append(current_tokens, current_token)
                          ELSE current_tokens
              IN  parse_pipeline_loop(line, i + 1,
                                      IF toks /= <<>> THEN Append(result, toks)
                                                      ELSE result,
                                      <<>>, EmptyStr,
                                      in_single_quote, in_double_quote)
         ELSE IF isspace(c) /\ ~in_single_quote /\ ~in_double_quote
         THEN parse_pipeline_loop(line, i + 1, result,
                                  IF current_token /= EmptyStr
                                  THEN Append(current_tokens, current_token)
                                  ELSE current_tokens,
                                  EmptyStr, in_single_quote, in_double_quote)
         ELSE parse_pipeline_loop(line, i + 1, result, current_tokens,
                                  Append(current_token, c),
                                  in_single_quote, in_double_quote)

parse_pipeline(line) ==
    parse_pipeline_loop(line, 1, <<>>, <<>>, EmptyStr, FALSE, FALSE)

(***************************************************************************)
(* CommandParser::tokenize_with_quotes: the tokenizer without the pipeline *)
(* operator; a backslash sets the flag escaped for the next character.     *)
(***************************************************************************)
RECURSIVE tokenize_with_quotes_loop(_, _, _, _, _, _, _)
tokenize_with_quotes_loop(line, i, tokens, current_token, in_single_quote, in_double_quote, escaped) ==
    IF i > Len(line)
    THEN IF current_token /= EmptyStr THEN Append(tokens, current_token)
                                      ELSE tokens
    ELSE LET c == line[i] IN
         IF escaped
         THEN tokenize_with_quotes_loop(line, i + 1, tokens,
                                        Append(current_token, c),
                                        in_single_quote, in_double_quote, FALSE)
         ELSE IF c = "\\"
         THEN tokenize_with_quotes_loop(line, i + 1, tokens, current_token,
                                        in_single_quote, in_double_quote, TRUE)
         ELSE IF c = "'" /\ ~in_double_quote
         THEN tokenize_with_quotes_loop(line, i + 1, tokens, current_token,
                                        ~in_single_quote, in_double_quote,
                                        FALSE)
         ELSE IF c = "\"" /\ ~in_single_quote
         THEN tokenize_with_quotes_loop(line, i + 1, tokens, current_token,
                                        in_single_quote, ~in_double_quote,
                                        FALSE)
         ELSE IF isspace(c) /\ ~in_single_quote /\ ~in_double_quote
         THEN tokenize_with_quotes_loop(line, i + 1,
                                        IF current_token /= EmptyStr
                                        THEN Append(tokens, current_token)
                                        ELSE tokens,
                                        EmptyStr, in_single_quote,
                                        in_double_quote, FALSE)
         ELSE tokenize_with_quotes_loop(line, i + 1, tokens,
                                        Append(current_token, c),
                                        in_single_quote, in_double_quote, FALSE)

tokenize_with_quotes(line) ==
    tokenize_with_quotes_loop(line, 1, <<>>, EmptyStr, FALSE, FALSE, FALSE)

\* CommandParser::tokenize
tokenize(line) == tokenize_with_quotes(line)

(***************************************************************************)
(* The Command structure of shell.h, default-constructed.                  *)
(***************************************************************************)
Command ==
    [arguments |-> <<>>, input_file |-> EmptyStr, output_file |-> EmptyStr,
     append_output |-> FALSE, background |-> FALSE, is_pipeline |-> FALSE]

(***************************************************************************)
(* CommandParser::parse_redirection: returns the command with its          *)
(* redirection fields set and the tokens that are left (field tokens).     *)
(***************************************************************************)
RECURSIVE parse_redirection_loop(_, _, _, _)
parse_redirection_loop(command, tokens, i, new_tokens) ==
    IF i > Len(tokens)
    THEN [command |-> command, tokens |-> new_tokens]
    ELSE LET token == tokens[i] IN
         IF token = <<"<">> /\ i < Len(tokens)
         THEN parse_redirection_loop(
                  [command EXCEPT !.input_file = tokens[i + 1]],
                  tokens, i + 2, new_tokens)
         ELSE IF token = <<">">> /\ i < Len(tokens)
         THEN parse_redirection_loop(
                  [command EXCEPT !.output_file = tokens[i + 1],
                                  !.append_output = FALSE],
                  tokens, i + 2, new_tokens)
         ELSE IF token = <<">", ">">> /\ i < Len(tokens)
         THEN parse_redirection_loop(
                  [command EXCEPT !.output_file = tokens[i + 1],
                                  !.append_output = TRUE],
                  tokens, i + 2, new_tokens)
         ELSE parse_redirection_loop(command, tokens, i + 1,
                                     Append(new_tokens, token))

\* parse_redirection leaving the command and its tokens as they are
parse_redirection_none(command, tokens) ==
    [command |-> command, tokens |-> tokens]

parse_redirection(command, tokens) ==
    parse_redirection_loop(command, tokens, 1, <<>>)

(***************************************************************************)
(* CommandParser::parse_background                                         *)
(***************************************************************************)
parse_background(command, tokens) ==
    IF tokens /= <<>> /\ tokens[Len(tokens)] = <<"&">>
    THEN [command |-> [command EXCEPT !.background = TRUE],
          tokens |-> SubSeq(tokens, 1, Len(tokens) - 1)]
    ELSE [command |-> command, tokens |-> tokens]

(***************************************************************************)
(* CommandParser::expand_variables_in_token                                *)
(***************************************************************************)
\* first index j >= from with token[j] = "}" , or Len(token)+1
RECURSIVE brace_end(_, _)
brace_end(token, j) ==
    IF j <= Len(token) /\ token[j] /= "}" THEN brace_end(token, j + 1) ELSE j

\* first index j >= from whose character is not a name character
RECURSIVE name_end(_, _)
name_end(token, j) ==
    IF j <= Len(token) /\ (isalnum(token[j]) \/ token[j] = "_")
    THEN name_end(token, j + 1) ELSE j

RECURSIVE expand_token_loop(_, _, _)
expand_token_loop(token, i, result) ==
    IF i > Len(token) THEN result
    ELSE IF token[i] = "$"
    THEN LET j == i + 1 IN
         IF j <= Len(token) /\ token[j] = "{"
         THEN LET e == brace_end(token, j + 1)
                  var_name == SubSeq(token, j + 1, e - 1)
                  after == IF e <= Len(token) THEN e + 1 ELSE e
              IN  expand_token_loop(token, after,
                      result \o get_environment_variable(var_name))
         ELSE IF j <= Len(token)
         THEN LET e == name_end(token, j)
                  var_name == SubSeq(token, j, e - 1)
              IN  expand_token_loop(token, e,
                      result \o get_environment_variable(var_name))
         ELSE expand_token_loop(token, i + 1, result)
    ELSE expand_token_loop(token, i + 1, Append(result, token[i]))

expand_variables_in_token(token) == expand_token_loop(token, 1, EmptyStr)

expand_variables(tokens) ==
    [k \in 1..Len(tokens) |-> expand_variables_in_token(tokens[k])]

(***************************************************************************)
(* CommandParser::parse_single_command and parse_command                   *)
(***************************************************************************)
parse_single_command(tokens) ==
    IF tokens = <<>> THEN <<>>
    ELSE LET r == parse_redirection(Command, tokens)
             b == parse_background(r.command, r.tokens)
         IN  << [b.command EXCEPT !.arguments = expand_variables(b.tokens)] >>

parse_command(line) ==
    IF line = EmptyStr THEN <<>>
    ELSE LET pipeline_parts == parse_pipeline(line) IN
         IF pipeline_parts = <<>> THEN <<>>
         ELSE IF Len(pipeline_parts) = 1
         THEN parse_single_command(pipeline_parts[1])
         ELSE LET command == parse_single_command(pipeline_parts[1]) IN
              IF command /= <<>>
              THEN << [command[1] EXCEPT !.is_pipeline = TRUE] >>
              ELSE command

(***************************************************************************)
(* BuiltinCommands: the names registered by initialize_commands, and the   *)
(* value each handler returns.  Only cmd_exit returns -1; the effects of   *)
(* the other handlers (working directory, printed text) are not part of    *)
(* the modelled state.                                                     *)
(***************************************************************************)
BuiltinNames == {W_cd, W_pwd, W_exit, W_help, W_echo, W_export, W_history}

is_builtin(command_name) == command_name \in BuiltinNames

\* cmd_exit without the test for too many arguments
cmd_exit_always(args) == -1

\* BuiltinCommands::cmd_exit
cmd_exit(args) == IF Len(args) > 1 THEN 1 ELSE -1

\* BuiltinCommands::execute_builtin; the handlers other than cmd_exit return
\* 0 or 1 and never -1: they are modelled by their success value.
execute_builtin(command) ==
    IF command.arguments = <<>> THEN 0
    ELSE IF command.arguments[1] = W_exit
    THEN cmd_exit(SubSeq(command.arguments, 2, Len(command.arguments)))
    ELSE 0

(***************************************************************************)
(* ProcessManager: executable resolution.                                  *)
(***************************************************************************)
\* The PATH variable and the files that have an execute permission bit.
PATH_ENV == <<"/", "a", ":", "/", "b">>
ExecutableFiles == {<<"/", "b", "/", "l", "s">>}

\* std::string::find(ch, start): first index >= start holding ch, or 0 (npos)
RECURSIVE str_find(_, _, _)
str_find(str, ch, start) ==
    IF start > Len(str) THEN 0
    ELSE IF str[start] = ch THEN start
    ELSE str_find(str, ch, start + 1)

\* "Split PATH by ':'" of search_path; empty entries are skipped
RECURSIVE split_path(_, _, _)
split_path(path_str, start, path_dirs) ==
    LET end == str_find(path_str, ":", start) IN
    IF end /= 0
    THEN split_path(path_str, end + 1,
                    IF end > start
                    THEN Append(path_dirs, SubSeq(path_str, start, end - 1))
                    ELSE path_dirs)
    ELSE IF start <= Len(path_str)
    THEN Append(path_dirs, SubSeq(path_str, start, Len(path_str)))
    ELSE path_dirs

\* ProcessManager::is_executable, given the set of executable files
is_executable(files, path) == path \in files

\* search_dirs returning the last directory of PATH that has the file
search_dirs_last(files, path_dirs, k, command_name) ==
    LET hits == {j \in k..Len(path_dirs) :
                    is_executable(files, path_dirs[j] \o <<"/">> \o command_name)}
    IN  IF hits = {} THEN EmptyStr
        ELSE LET last == CHOOSE j \in hits : \A h \in hits : h <= j
             IN  path_dirs[last] \o <<"/">> \o command_name

RECURSIVE search_dirs(_, _, _, _)
search_dirs(files, path_dirs, k, command_name) ==
    IF k > Len(path_dirs) THEN EmptyStr
    ELSE LET full_path == path_dirs[k] \o <<"/">> \o command_name IN
         IF is_executable(files, full_path) THEN full_path
         ELSE search_dirs(files, path_dirs, k + 1, command_name)

\* ProcessManager::search_path
search_path(files, path_str, command_name) ==
    search_dirs(files, split_path(path_str, 1, <<>>), 1, command_name)

\* ProcessManager::find_executable for a given file system and PATH
find_executable_in(files, path_str, command_name) ==
    IF str_find(command_name, "/", 1) /= 0
    THEN IF is_executable(files, command_name) THEN command_name ELSE EmptyStr
    ELSE search_path(files, path_str, command_name)

find_executable(command_name) ==
    find_executable_in(ExecutableFiles, PATH_ENV, command_name)

(***************************************************************************)
(* Child processes and wait statuses.                                      *)
(***************************************************************************)
Pids == 1..MaxPid
\* exit codes and signals a running program ends with in the model
ExitCodes == {0, 1}
Signals == {9}
NoStatus == [kind |-> "none", val |-> 0]
Exited(code) == [kind |-> "exit", val |-> code]
Signaled(sig) == [kind |-> "signal", val |-> sig]
WIFEXITED(status) == status.kind = "exit"
WEXITSTATUS(status) == status.val
WIFSIGNALED(status) == status.kind = "signal"
WTERMSIG(status) == status.val

\* options of waitpid
WNOHANG == 1

\* waitpid(pid, &status, options) on the process table procs: blocked when the
\* call would suspend the caller; otherwise result is pid (reaped, status
\* set), 0 (WNOHANG and still running) or -1 (no such child).
waitpid(procs, pid, options) ==
    IF procs[pid].state = "free"
    THEN [blocked |-> FALSE, result |-> -1, status |-> NoStatus, procs |-> procs]
    ELSE IF procs[pid].state = "terminated"
    THEN [blocked |-> FALSE, result |-> pid, status |-> procs[pid].status,
          procs |-> [procs EXCEPT ![pid] = [state |-> "free", status |-> NoStatus]]]
    ELSE IF options = WNOHANG
    THEN [blocked |-> FALSE, result |-> 0, status |-> NoStatus, procs |-> procs]
    ELSE [blocked |-> TRUE, result |-> 0, status |-> NoStatus, procs |-> procs]

(***************************************************************************)
(* ProcessManager::cleanup_finished_processes (the sweep): one waitpid per *)
(* tracked pid.  printed is what the sweep writes to std::cout.            *)
(***************************************************************************)
RECURSIVE cleanup_loop(_, _, _, _, _, _)
cleanup_loop(bg, k, procs, still_running, printed, options) ==
    IF k > Len(bg)
    THEN [blocked |-> FALSE, background_processes |-> still_running,
          procs |-> procs, printed |-> printed]
    ELSE LET pid == bg[k]
             w == waitpid(procs, pid, options)
         IN  IF w.blocked
             THEN [blocked |-> TRUE, background_processes |-> bg,
                   procs |-> procs, printed |-> printed]
             ELSE IF w.result = 0
             THEN cleanup_loop(bg, k + 1, w.procs, Append(still_running, pid),
                               printed, options)
             ELSE IF w.result = pid
             THEN cleanup_loop(bg, k + 1, w.procs, still_running,
                      IF WIFEXITED(w.status) /\ WEXITSTATUS(w.status) /= 0
                      THEN Append(printed, [pid |-> pid, what |-> "exited",
                                            val |-> WEXITSTATUS(w.status)])
                      ELSE IF WIFSIGNALED(w.status)
                      THEN Append(printed, [pid |-> pid, what |-> "signal",
                                            val |-> WTERMSIG(w.status)])
                      ELSE printed,
                      options)
             ELSE cleanup_loop(bg, k + 1, w.procs, still_running, printed,
                               options)

\* cleanup_finished_processes without the assignment of line 363
cleanup_keeps_registry(bg, procs) ==
    [cleanup_loop(bg, 1, procs, <<>>, <<>>, WNOHANG) EXCEPT !.background_processes = bg]

\* cleanup_finished_processes with a blocking waitpid
cleanup_blocking(bg, procs) ==
    cleanup_loop(bg, 1, procs, <<>>, <<>>, 0)

cleanup_finished_processes(bg, procs) ==
    cleanup_loop(bg, 1, procs, <<>>, <<>>, WNOHANG)

\* ProcessManager::wait_for_background_processes
wait_for_background_processes(bg, procs) ==
    cleanup_finished_processes(bg, procs)

(***************************************************************************)
(* ProcessManager::execute_command, parent side.                           *)
(***************************************************************************)
\* the names execute_command leaves to BuiltinCommands (lines 40-44)
ManagerBuiltinNames == {W_cd, W_pwd, W_exit, W_help, W_echo, W_export}

\* execute_command_decision without the test of find_executable's result
execute_command_decision_unresolved(command) ==
    IF command.arguments = <<>> THEN [fork |-> FALSE, ret |-> 0, err |-> "none"]
    ELSE IF command.arguments[1] \in ManagerBuiltinNames
    THEN [fork |-> FALSE, ret |-> 0, err |-> "none"]
    ELSE [fork |-> TRUE, ret |-> 0, err |-> "none"]

\* What execute_command decides before fork(): whether it forks, and, when it
\* does not, the value it returns and the message it writes to std::cerr
\* ("not_found": "Command not found: <name>").
execute_command_decision(command) ==
    IF command.arguments = <<>> THEN [fork |-> FALSE, ret |-> 0, err |-> "none"]
    ELSE IF command.arguments[1] \in ManagerBuiltinNames
    THEN [fork |-> FALSE, ret |-> 0, err |-> "none"]
    ELSE IF find_executable(command.arguments[1]) = EmptyStr
    THEN [fork |-> FALSE, ret |-> -1, err |-> "not_found"]
    ELSE [fork |-> TRUE, ret |-> 0, err |-> "none"]

\* add_background_process without the push_back
add_background_process_dropped(bg, pid) == bg

\* ProcessManager::add_background_process
add_background_process(bg, pid) == Append(bg, pid)

\* the translation of a reaped wait status into a return value
\* (execute_command lines 78-86, execute_pipeline_internal lines 169-173)
status_to_return(status) ==
    IF WIFEXITED(status) THEN WEXITSTATUS(status)
    ELSE IF WIFSIGNALED(status) THEN 128 + WTERMSIG(status)
    ELSE 0

\* foreground_wait with WNOHANG
foreground_wait_nohang(procs, pid) == waitpid(procs, pid, WNOHANG)

\* the foreground wait of execute_command: waitpid(pid, &status, 0)
foreground_wait(procs, pid) == waitpid(procs, pid, 0)

(***************************************************************************)
(* Shell::execute_command: what the line is dispatched to.                 *)
(***************************************************************************)
shell_dispatch(command_line) ==
    LET command == parse_command(command_line) IN
    IF command = <<>> THEN "parse_error"
    ELSE IF command[1].arguments /= <<>> /\ is_builtin(command[1].arguments[1])
    THEN "builtin"
    ELSE "external"

\* Shell::run line 72: find_first_not_of(" \t\n\r") == npos
is_blank(command_line) ==
    \A k \in 1..Len(command_line) : command_line[k] \in {" ", "\t", "\n", "\r"}

(***************************************************************************)
(* The state of the session.                                               *)
(***************************************************************************)
VARIABLES
    running_,               \* Shell::running_
    pc,                     \* where the shell is: "prompt" (in getline),
                            \* "fgwait" (suspended in the foreground waitpid),
                            \* "sweepwait" (suspended in a waitpid of the
                            \* sweep), "exited"
    line,                   \* command_line of Shell::run
    command_count,          \* the static counter of Shell::run
    background_processes_,  \* ProcessManager::background_processes_
    proc,                   \* the kernel's table of the shell's children
    fg_pid,                 \* pid the foreground waitpid waits for (0: none)
    printed,                \* background reports written by the last step
    swept,                  \* the last step ran cleanup_finished_processes
    trace                   \* what the last Shell::execute_command did, with
                            \* the failure it reported on std::cerr (err)

svars == <<running_, pc, line, command_count, background_processes_, proc,
           fg_pid, printed, swept, trace>>

\* the state of a call of execute_pipeline_internal (described below)
VARIABLES
    pipeline,       \* the argument: stage i -> Command, i in 0..N-1
    ppc,            \* the parent: "idle", "pipes", "fork", "close", "wait",
                    \* "returned"
    pi,             \* the parent's loop index
    parent_fds,     \* pipe_fds slots open in the parent
    child,          \* stage -> the child forked for it
    child_pids,     \* the vector child_pids
    final_status,   \* the local final_status
    pret            \* the value returned: <<>> until the call returns

pvars == <<pipeline, ppc, pi, parent_fds, child, child_pids, final_status, pret>>

\* what a call of find_executable reads and returns (described below)
VARIABLES
    files,            \* the paths for which is_executable is true
    path_env,         \* the value of the environment variable PATH
    command_name,     \* the argument of find_executable
    executable_path   \* the value returned: <<>> until the call returns

rvars == <<files, path_env, command_name, executable_path>>

\* Shell::run line 81: the sweep runs after every 10th executed line
SweepEvery == 10

FreeProc == [state |-> "free", status |-> NoStatus]
NoTrace == [what |-> "none", nforks |-> 0, npipes |-> 0,
            background |-> FALSE, ret |-> <<>>, err |-> "none"]

SessionInit ==
    /\ running_ = TRUE
    /\ pc = "prompt"
    /\ line = EmptyStr
    /\ command_count = 0
    /\ background_processes_ = <<>>
    /\ proc = [p \in Pids |-> FreeProc]
    /\ fg_pid = 0
    /\ printed = <<>>
    /\ swept = FALSE
    /\ trace = NoTrace

(***************************************************************************)
(* The rest of a loop iteration of Shell::run once execute_command has     *)
(* returned: the periodic sweep, the loop condition and, when the loop     *)
(* ends, Shell::cleanup run by the destructor.                             *)
(***************************************************************************)
NoSweep(bg, procs) ==
    [blocked |-> FALSE, background_processes |-> bg, procs |-> procs,
     printed |-> <<>>]

\* Shell::cleanup without its call of wait_for_background_processes
cleanup_skipped(bg, procs) == NoSweep(bg, procs)

\* Shell::cleanup
cleanup(bg, procs) == wait_for_background_processes(bg, procs)

finish_iteration(run, count, bg, procs) ==
    LET periodic == IF count + 1 >= SweepEvery
                    THEN wait_for_background_processes(bg, procs)
                    ELSE NoSweep(bg, procs)
        final == IF run
                 THEN NoSweep(periodic.background_processes, periodic.procs)
                 ELSE cleanup(periodic.background_processes, periodic.procs)
    IN  [blocked |-> periodic.blocked \/ final.blocked,
         count |-> IF count + 1 >= SweepEvery THEN 0 ELSE count + 1,
         background_processes |-> final.background_processes,
         procs |-> final.procs,
         printed |-> periodic.printed \o final.printed,
         swept |-> (count + 1 >= SweepEvery) \/ ~run,
         pc |-> IF periodic.blocked \/ final.blocked THEN "sweepwait"
                ELSE IF run THEN "prompt" ELSE "exited"]

Finish(run, bg, procs) ==
    LET f == finish_iteration(run, command_count, bg, procs) IN
    /\ running_' = run
    /\ command_count' = f.count
    /\ background_processes_' = f.background_processes
    /\ proc' = f.procs
    /\ printed' = f.printed
    /\ swept' = f.swept
    /\ pc' = f.pc

ReadLine(l) ==
    /\ pc = "prompt"
    /\ running_
    /\ line' = l
    /\ UNCHANGED <<pvars, rvars>>

(***************************************************************************)
(* One iteration of Shell::run, by the path it takes.                      *)
(***************************************************************************)
\* line 72: a blank line is skipped, nothing is counted
BlankLine(l) ==
    /\ ReadLine(l)
    /\ is_blank(l)
    /\ trace' = [NoTrace EXCEPT !.what = "blank"]
    /\ printed' = <<>>
    /\ swept' = FALSE
    /\ UNCHANGED <<running_, pc, command_count, background_processes_, proc,
                   fg_pid>>

\* Shell::execute_command lines 145-148: parse_command returned nullptr
ParseFailure(l, dispatch) ==
    /\ ReadLine(l)
    /\ ~is_blank(l)
    /\ dispatch = "parse_error"
    /\ trace' = [NoTrace EXCEPT !.what = "parse_error", !.err = "parse"]
    /\ fg_pid' = 0
    /\ Finish(running_, background_processes_, proc)

\* Shell::execute_command lines 151-158: a builtin runs in the shell
RunBuiltin(l, dispatch, command) ==
    /\ ReadLine(l)
    /\ ~is_blank(l)
    /\ dispatch = "builtin"
    /\ LET status == execute_builtin(command[1]) IN
       /\ trace' = [NoTrace EXCEPT !.what = "builtin"]
       /\ fg_pid' = 0
       /\ Finish(IF status = -1 THEN FALSE ELSE running_,
                 background_processes_, proc)

\* ProcessManager::execute_command returns before fork()
NoFork(l, dispatch, command) ==
    /\ ReadLine(l)
    /\ ~is_blank(l)
    /\ dispatch = "external"
    /\ LET d == execute_command_decision(command[1]) IN
       /\ ~d.fork
       /\ trace' = [NoTrace EXCEPT !.what = "external", !.ret = <<d.ret>>,
                                   !.err = d.err]
       /\ fg_pid' = 0
       /\ Finish(running_, background_processes_, proc)

\* fork() fails (lines 55-58)
ForkFails(l, dispatch, command) ==
    /\ ReadLine(l)
    /\ ~is_blank(l)
    /\ dispatch = "external"
    /\ execute_command_decision(command[1]).fork
    /\ trace' = [NoTrace EXCEPT !.what = "external", !.ret = <<-1>>,
                                !.err = "fork_failed"]
    /\ fg_pid' = 0
    /\ Finish(running_, background_processes_, proc)

\* fork() returns pid; the command is a background command (lines 69-72)
LaunchBackground(l, dispatch, command, pid) ==
    /\ ReadLine(l)
    /\ ~is_blank(l)
    /\ dispatch = "external"
    /\ execute_command_decision(command[1]).fork
    /\ proc[pid].state = "free"
    /\ command[1].background
    /\ trace' = [what |-> "external", nforks |-> 1, npipes |-> 0,
                 background |-> TRUE, ret |-> <<0>>, err |-> "none"]
    /\ fg_pid' = 0
    /\ Finish(running_, add_background_process(background_processes_, pid),
              [proc EXCEPT ![pid] = [state |-> "running", status |-> NoStatus]])

\* fork() returns pid; the shell enters the foreground waitpid (lines 74-76)
LaunchForeground(l, dispatch, command, pid) ==
    /\ ReadLine(l)
    /\ ~is_blank(l)
    /\ dispatch = "external"
    /\ execute_command_decision(command[1]).fork
    /\ proc[pid].state = "free"
    /\ ~command[1].background
    /\ trace' = [what |-> "external", nforks |-> 1, npipes |-> 0,
                 background |-> FALSE, ret |-> <<>>, err |-> "none"]
    /\ fg_pid' = pid
    /\ pc' = "fgwait"
    /\ proc' = [proc EXCEPT ![pid] = [state |-> "running", status |-> NoStatus]]
    /\ printed' = <<>>
    /\ swept' = FALSE
    /\ UNCHANGED <<running_, command_count, background_processes_>>

\* the foreground waitpid returns (lines 76-82) and the iteration finishes
ForegroundReturns ==
    /\ pc = "fgwait"
    /\ LET w == foreground_wait(proc, fg_pid) IN
       /\ ~w.blocked
       /\ trace' = [trace EXCEPT !.ret = <<status_to_return(w.status)>>]
       /\ Finish(running_, background_processes_, w.procs)
    /\ UNCHANGED <<line, fg_pid>>
    /\ UNCHANGED <<pvars, rvars>>

\* std::getline fails: the loop breaks and the destructor runs cleanup
EndOfInput ==
    /\ pc = "prompt"
    /\ running_
    /\ LET c == cleanup(background_processes_, proc) IN
       /\ background_processes_' = c.background_processes
       /\ proc' = c.procs
       /\ printed' = c.printed
       /\ pc' = IF c.blocked THEN "sweepwait" ELSE "exited"
    /\ swept' = TRUE
    /\ trace' = NoTrace
    /\ UNCHANGED <<running_, line, command_count, fg_pid>>
    /\ UNCHANGED <<pvars, rvars>>

(***************************************************************************)
(* The children (child side of execute_command, lines 60-66, and the       *)
(* program that was exec'd).                                               *)
(***************************************************************************)
\* exec_external_command returns -1: _exit(127)
ChildExecFails(p) ==
    /\ proc[p].state = "running"
    /\ proc' = [proc EXCEPT ![p] = [state |-> "terminated",
                                    status |-> Exited(127)]]
    /\ printed' = <<>>
    /\ swept' = FALSE
    /\ UNCHANGED <<running_, pc, line, command_count, background_processes_,
                   fg_pid, trace>>
    /\ UNCHANGED <<pvars, rvars>>

\* the program that was exec'd exits
ChildExits(p, code) ==
    /\ proc[p].state = "running"
    /\ proc' = [proc EXCEPT ![p] = [state |-> "terminated",
                                    status |-> Exited(code)]]
    /\ printed' = <<>>
    /\ swept' = FALSE
    /\ UNCHANGED <<running_, pc, line, command_count, background_processes_,
                   fg_pid, trace>>
    /\ UNCHANGED <<pvars, rvars>>

\* the child is killed by a signal
ChildKilled(p, sig) ==
    /\ proc[p].state = "running"
    /\ proc' = [proc EXCEPT ![p] = [state |-> "terminated",
                                    status |-> Signaled(sig)]]
    /\ printed' = <<>>
    /\ swept' = FALSE
    /\ UNCHANGED <<running_, pc, line, command_count, background_processes_,
                   fg_pid, trace>>
    /\ UNCHANGED <<pvars, rvars>>

ChildStep ==
    \E p \in Pids :
        \/ ChildExecFails(p)
        \/ \E code \in ExitCodes : ChildExits(p, code)
        \/ \E sig \in Signals : ChildKilled(p, sig)

\* Shell::execute_command line 144 parses the line once
Iteration(l) ==
    LET command == parse_command(l)
        dispatch == shell_dispatch(l)
    IN  \/ BlankLine(l)
        \/ ParseFailure(l, dispatch)
        \/ RunBuiltin(l, dispatch, command)
        \/ NoFork(l, dispatch, command)
        \/ ForkFails(l, dispatch, command)
        \/ \E pid \in Pids : LaunchBackground(l, dispatch, command, pid)
        \/ \E pid \in Pids : LaunchForeground(l, dispatch, command, pid)

(***************************************************************************)
(* ProcessManager::execute_pipeline_internal.                              *)
(*                                                                         *)
(* Stages and pipes are numbered from 0 as in the code.  A pipe descriptor *)
(* is named by its slot j in pipe_fds: slot 2i is the read end of pipe i   *)
(* and slot 2i+1 its write end.  Each process has the set of slots it      *)
(* holds open (fds) and what its standard input and output are bound to.   *)
(* A child is named by its stage: child_pids holds stages.                 *)
(***************************************************************************)
Inherited == [kind |-> "inherited", fd |-> -1]
PipeEnd(j) == [kind |-> "pipe", fd |-> j]
File(name) == [kind |-> "file", fd |-> -1]

NoChild == [st |-> "none", fds |-> {}, stdin |-> Inherited, stdout |-> Inherited,
            status |-> NoStatus]

NumStages == Cardinality(DOMAIN pipeline)
\* int num_pipes = pipeline.size() - 1
num_pipes == NumStages - 1
\* the slots of std::vector<int> pipe_fds(num_pipes * 2)
PipeSlots == 0..(num_pipes * 2 - 1)

PipelineIdle ==
    /\ pipeline = <<>>
    /\ ppc = "idle"
    /\ pi = 0
    /\ parent_fds = {}
    /\ child = <<>>
    /\ child_pids = <<>>
    /\ final_status = 0
    /\ pret = <<>>

\* the commands a stage is drawn from: a plain command, one with both
\* redirections set, and one with no arguments
CmdPlain == [Command EXCEPT !.arguments = <<W_ls>>]
CmdRedirected == [Command EXCEPT !.arguments = <<W_ls>>, !.input_file = <<"i">>, !.output_file = <<"o">>]
StageCommands == {CmdPlain, CmdRedirected, Command}

Pipelines == UNION {[0..(n - 1) -> StageCommands] : n \in 2..MaxStages}

PipelineInit ==
    /\ pipeline \in Pipelines
    /\ ppc = "pipes"
    /\ pi = 0
    /\ parent_fds = {}
    /\ child = [i \in DOMAIN pipeline |-> NoChild]
    /\ child_pids = <<>>
    /\ final_status = 0
    /\ pret = <<>>

\* "Create pipes" (lines 109-114): all num_pipes calls of pipe() succeed
CreatePipes ==
    /\ ppc = "pipes"
    /\ parent_fds' = PipeSlots
    /\ ppc' = "fork"
    /\ pi' = 0
    /\ UNCHANGED <<pipeline, child, child_pids, final_status, pret>>
    /\ UNCHANGED <<svars, rvars>>

\* pipe() fails for pipe k after k pipes were created: return -1
PipeFails(k) ==
    /\ ppc = "pipes"
    /\ k \in 0..(num_pipes - 1)
    /\ parent_fds' = 0..(2 * k - 1)
    /\ ppc' = "returned"
    /\ pret' = <<-1>>
    /\ UNCHANGED <<pipeline, pi, child, child_pids, final_status>>
    /\ UNCHANGED <<svars, rvars>>

\* fork() for stage pi succeeds (lines 118, 150-153): the child starts with a
\* copy of the parent's descriptors
ForkStage ==
    /\ ppc = "fork"
    /\ child' = [child EXCEPT ![pi] = [NoChild EXCEPT !.st = "forked", !.fds = parent_fds]]
    /\ child_pids' = Append(child_pids, pi)
    /\ pi' = pi + 1
    /\ ppc' = IF pi + 1 < NumStages THEN "fork" ELSE "close"
    /\ UNCHANGED <<pipeline, parent_fds, final_status, pret>>
    /\ UNCHANGED <<svars, rvars>>

\* fork() fails (lines 119-122): return -1
ForkStageFails ==
    /\ ppc = "fork"
    /\ ppc' = "returned"
    /\ pret' = <<-1>>
    /\ UNCHANGED <<pipeline, pi, parent_fds, child, child_pids, final_status>>
    /\ UNCHANGED <<svars, rvars>>

\* ParentCloses without the loop of close calls
ParentKeepsPipes ==
    /\ ppc = "close"
    /\ ppc' = "wait"
    /\ pi' = 1
    /\ UNCHANGED <<pipeline, parent_fds, child, child_pids, final_status, pret>>
    /\ UNCHANGED <<svars, rvars>>

\* "Close all pipe file descriptors in parent" (lines 157-159)
ParentCloses ==
    /\ ppc = "close"
    /\ parent_fds' = parent_fds \ PipeSlots
    /\ ppc' = "wait"
    /\ pi' = 1
    /\ UNCHANGED <<pipeline, child, child_pids, final_status, pret>>
    /\ UNCHANGED <<svars, rvars>>

\* is_last_child comparing with child_pids.front()
is_first_child(pids, pid) == pid = pids[1]

\* line 168: pid == child_pids.back()
is_last_child(pids, pid) == pid = pids[Len(pids)]

\* one turn of "Wait for all children" (lines 163-175): waitpid(pid, &status,
\* 0) returns once the child has terminated; after the last turn the function
\* returns final_status
WaitStage ==
    /\ ppc = "wait"
    /\ LET pid == child_pids[pi]
           status == child[pid].status
           fs == IF is_last_child(child_pids, pid)
                 THEN status_to_return(status) ELSE final_status
       IN  /\ child[pid].st = "terminated"
           /\ child' = [child EXCEPT ![pid].st = "reaped"]
           /\ final_status' = fs
           /\ IF pi < Len(child_pids)
              THEN pi' = pi + 1 /\ UNCHANGED <<ppc, pret>>
              ELSE ppc' = "returned" /\ pret' = <<fs>> /\ UNCHANGED pi
    /\ UNCHANGED <<pipeline, parent_fds, child_pids>>
    /\ UNCHANGED <<svars, rvars>>

(***************************************************************************)
(* The child of stage i (lines 124-149).                                   *)
(***************************************************************************)
\* child_bind with the input taken from the stage's own pipe (slot i*2)
child_bind_shifted(i, c) ==
    [c EXCEPT !.stdin = IF i > 0 THEN PipeEnd(i * 2) ELSE c.stdin,
              !.stdout = IF i < NumStages - 1 THEN PipeEnd(i * 2 + 1) ELSE c.stdout]

\* lines 128-137: the two dup2 calls
child_bind(i, c) ==
    [c EXCEPT !.stdin = IF i > 0 THEN PipeEnd((i - 1) * 2) ELSE c.stdin,
              !.stdout = IF i < NumStages - 1 THEN PipeEnd(i * 2 + 1) ELSE c.stdout]

\* child_close without the loop of close calls
child_close_none(c) == c

\* lines 140-142: close(pipe_fds[j]) for every slot j
child_close(c) == [c EXCEPT !.fds = c.fds \ PipeSlots]

ChildSetup(i) ==
    /\ i \in DOMAIN child
    /\ child[i].st = "forked"
    /\ child' = [child EXCEPT ![i] = [child_close(child_bind(i, child[i])) EXCEPT !.st = "ready"]]
    /\ UNCHANGED <<pipeline, ppc, pi, parent_fds, child_pids, final_status, pret>>
    /\ UNCHANGED <<svars, rvars>>

\* ProcessManager::setup_io_redirection in the process c; in_ok and out_ok say
\* whether open() of the input and of the output file succeeds
setup_io_redirection(command, c, in_ok, out_ok) ==
    IF command.input_file /= EmptyStr /\ ~in_ok THEN [ret |-> -1, c |-> c]
    ELSE LET c1 == IF command.input_file /= EmptyStr
                   THEN [c EXCEPT !.stdin = File(command.input_file)] ELSE c
         IN  IF command.output_file /= EmptyStr /\ ~out_ok THEN [ret |-> -1, c |-> c1]
             ELSE [ret |-> 0,
                   c |-> IF command.output_file /= EmptyStr
                         THEN [c1 EXCEPT !.stdout = File(command.output_file)] ELSE c1]

\* ProcessManager::exec_external_command in the process c: ret is -1 when it
\* returns, 0 when execvp replaced the image (exec_ok)
exec_external_command(command, c, in_ok, out_ok, exec_ok) ==
    IF command.arguments = <<>> THEN [ret |-> -1, c |-> c]
    ELSE LET r == setup_io_redirection(command, c, in_ok, out_ok) IN
         IF r.ret < 0 THEN r
         ELSE IF find_executable(command.arguments[1]) = EmptyStr THEN [ret |-> -1, c |-> r.c]
         ELSE IF exec_ok THEN [ret |-> 0, c |-> r.c]
         ELSE [ret |-> -1, c |-> r.c]

\* a process that has terminated holds no descriptor
Terminated(status) ==
    [st |-> "terminated", fds |-> {}, stdin |-> Inherited, stdout |-> Inherited,
     status |-> status]

\* child_after_exec going on as the program when exec_external_command
\* returned
child_after_exec_continues(r) == [r.c EXCEPT !.st = "execd"]

\* lines 145-148: what the child is after the call of exec_external_command:
\* the program when execvp replaced the image, terminated by _exit(127) when
\* the call returned
child_after_exec(r) ==
    IF r.ret < 0 THEN Terminated(Exited(127)) ELSE [r.c EXCEPT !.st = "execd"]

\* lines 145-148: exec_external_command, then _exit(127) if it returned
ChildExec(i, in_ok, out_ok, exec_ok) ==
    /\ i \in DOMAIN child
    /\ child[i].st = "ready"
    /\ LET r == exec_external_command(pipeline[i], child[i], in_ok, out_ok, exec_ok) IN
       child' = [child EXCEPT ![i] = child_after_exec(r)]
    /\ UNCHANGED <<pipeline, ppc, pi, parent_fds, child_pids, final_status, pret>>
    /\ UNCHANGED <<svars, rvars>>

\* the program of stage i exits with code
StageExits(i, code) ==
    /\ i \in DOMAIN child
    /\ child[i].st = "execd"
    /\ child' = [child EXCEPT ![i] = Terminated(Exited(code))]
    /\ UNCHANGED <<pipeline, ppc, pi, parent_fds, child_pids, final_status, pret>>
    /\ UNCHANGED <<svars, rvars>>

\* some process holds a descriptor of the write end of pipe k (slot 2k+1):
\* the parent, or a child in its descriptor table or as its standard output
write_end_open(k) ==
    \/ (2 * k + 1) \in parent_fds
    \/ \E j \in DOMAIN child :
           \/ (2 * k + 1) \in child[j].fds
           \/ child[j].stdout = PipeEnd(2 * k + 1)

\* read() on the standard input of stage i can return end-of-file: always
\* for a terminal or a file; for a pipe once no write end of it is open
eof_on_stdin(i) ==
    child[i].stdin.kind = "pipe" => ~write_end_open(child[i].stdin.fd \div 2)

\* the program of stage i exits with code once it has read end-of-file on
\* its standard input (stage 0, whose input is no pipe, exits on its own)
StageExitsAtEof(i, code) ==
    /\ i \in DOMAIN child
    /\ eof_on_stdin(i)
    /\ StageExits(i, code)

\* the child of stage i is killed by a signal
StageKilled(i, sig) ==
    /\ i \in DOMAIN child
    /\ child[i].st \in {"forked", "ready", "execd"}
    /\ child' = [child EXCEPT ![i] = Terminated(Signaled(sig))]
    /\ UNCHANGED <<pipeline, ppc, pi, parent_fds, child_pids, final_status, pret>>
    /\ UNCHANGED <<svars, rvars>>

(***************************************************************************)
(* Input lines.                                                            *)
(***************************************************************************)
Pieces == {W_ls, W_nf, W_exit, <<" ">>, <<"\"">>, <<"'">>, <<"|">>, <<"&">>,
           <<"\\">>, <<"<">>, <<">">>}

RECURSIVE LinesOf(_)
LinesOf(n) ==
    IF n = 0 THEN {EmptyStr}
    ELSE LET shorter == LinesOf(n - 1) IN
         shorter \cup {p \o q : p \in Pieces, q \in shorter}

Lines == LinesOf(MaxPieces)

\* the lines typed in the session specification
SessionLines ==
    {<<" ">>, <<"|">>, W_exit, W_nf, W_ls, W_ls \o <<" ", "&">>,
     W_nf \o <<" ", "&">>, W_exit \o <<" ">> \o W_ls \o <<" ">> \o W_ls}

vars == <<svars, pvars, rvars>>

\* no call of find_executable is followed: the file system and PATH are the
\* ones find_executable reads
ResolveIdle ==
    /\ files = ExecutableFiles
    /\ path_env = PATH_ENV
    /\ command_name = EmptyStr
    /\ executable_path = <<>>

(***************************************************************************)
(* Spec: a whole session.                                                  *)
(***************************************************************************)
Init == SessionInit /\ PipelineIdle /\ ResolveIdle

Next ==
    \/ \E l \in SessionLines : Iteration(l)
    \/ ForegroundReturns
    \/ EndOfInput
    \/ ChildStep

Spec == Init /\ [][Next]_vars

(***************************************************************************)
(* SpecLive: a whole session that goes on, with at most MaxChildren        *)
(* children of the shell at a time (fork() returns one of the pids         *)
(* 1..MaxChildren, or fails).  The kernel runs the shell and its children  *)
(* when they can run, std::getline returns (a line or the end of the       *)
(* input) and a program that was started terminates: as long as a step can *)
(* change the state, one is taken.                                         *)
(***************************************************************************)
FewChildren == \A p \in Pids : p > MaxChildren => proc[p].state = "free"

NextLive ==
    \/ EndOfInput
    \/ ForegroundReturns
    \/ ChildStep
    \/ \E l \in SessionLines : Iteration(l) /\ FewChildren'

SpecLive == Init /\ [][NextLive]_vars /\ WF_vars(NextLive)

(***************************************************************************)
(* SpecLine: the first line of a session, over all lines of the bound.     *)
(***************************************************************************)
FirstLine(l) == trace.what = "none" /\ Iteration(l)

NextLine ==
    \/ \E l \in Lines : FirstLine(l)
    \/ ForegroundReturns
    \/ ChildStep

SpecLine == Init /\ [][NextLine]_vars

(***************************************************************************)
(* SpecSegment: the first line of a session, over the lines of one segment *)
(* made of at most MaxTokens tokens separated by single blanks.            *)
(***************************************************************************)
SegmentTokens == {W_ls, W_nf, <<"<">>, <<">">>, <<">", ">">>, <<"&">>}

RECURSIVE JoinTokens(_)
JoinTokens(tokens) ==
    IF Len(tokens) = 0 THEN EmptyStr
    ELSE IF Len(tokens) = 1 THEN tokens[1]
    ELSE tokens[1] \o <<" ">> \o JoinTokens(Tail(tokens))

SegmentLines ==
    {JoinTokens(tokens) :
        tokens \in UNION {[1..n -> SegmentTokens] : n \in 1..MaxTokens}}

NextSegment ==
    \/ \E l \in SegmentLines : FirstLine(l)
    \/ ForegroundReturns
    \/ ChildStep

SpecSegment == Init /\ [][NextSegment]_vars

(***************************************************************************)
(* SpecToken: the first line of a session, over the lines that are one     *)
(* token of at most MaxChars characters: $, braces, the name characters X  *)
(* (a variable that is set) and Y (unset), a character that is no name     *)
(* character, and the single quote.                                        *)
(***************************************************************************)
TokenChars == {"$", "{", "}", "X", "Y", "-", "'"}

TokenLines == UNION {[1..n -> TokenChars] : n \in 1..MaxChars}

NextToken ==
    \/ \E l \in TokenLines : FirstLine(l)
    \/ ForegroundReturns
    \/ ChildStep

SpecToken == Init /\ [][NextToken]_vars

(***************************************************************************)
(* SpecResolve: one call of find_executable, over the file systems, the    *)
(* values of PATH (entries separated by ":", empty entries included) and   *)
(* the names of the bound.                                                 *)
(***************************************************************************)
PathEntries == {<<"/", "a">>, <<"/", "b">>, EmptyStr}
ProgramNames == {W_ls, <<"t">>}

RECURSIVE JoinPath(_)
JoinPath(entries) ==
    IF Len(entries) = 0 THEN EmptyStr
    ELSE IF Len(entries) = 1 THEN entries[1]
    ELSE entries[1] \o <<":">> \o JoinPath(Tail(entries))

PathStrings ==
    {JoinPath(entries) :
        entries \in UNION {[1..n -> PathEntries] : n \in 0..MaxDirs}}

\* the files that may be executable: each name in each entry of PATH
CandidateFiles == {d \o <<"/">> \o n : d \in PathEntries, n \in ProgramNames}

\* the names find_executable is called with: plain names and paths
CommandNames == ProgramNames \cup {<<"/", "a", "/", "l", "s">>, <<"/", "b", "/", "t">>}

ResolveInit ==
    /\ files \in SUBSET CandidateFiles
    /\ path_env \in PathStrings
    /\ command_name = EmptyStr
    /\ executable_path = <<>>

\* the call find_executable(name) returns
Resolve(name) ==
    /\ executable_path = <<>>
    /\ command_name' = name
    /\ executable_path' = <<find_executable_in(files, path_env, name)>>
    /\ UNCHANGED <<files, path_env>>
    /\ UNCHANGED <<svars, pvars>>

InitResolve == SessionInit /\ PipelineIdle /\ ResolveInit

NextResolve == \E name \in CommandNames : Resolve(name)

SpecResolve == InitResolve /\ [][NextResolve]_vars

(***************************************************************************)
(* SpecPipeline: one call of execute_pipeline_internal, over all pipelines *)
(* of the bound.                                                           *)
(***************************************************************************)
InitPipeline == SessionInit /\ PipelineInit /\ ResolveIdle

NextPipeline ==
    \/ CreatePipes
    \/ \E k \in 0..(MaxStages - 2) : PipeFails(k)
    \/ ForkStage
    \/ ForkStageFails
    \/ ParentCloses
    \/ WaitStage
    \/ \E i \in 0..(MaxStages - 1) :
        \/ ChildSetup(i)
        \/ \E in_ok, out_ok, exec_ok \in BOOLEAN : ChildExec(i, in_ok, out_ok, exec_ok)
        \/ \E code \in ExitCodes : StageExits(i, code)
        \/ \E sig \in Signals : StageKilled(i, sig)

SpecPipeline == InitPipeline /\ [][NextPipeline]_vars

(***************************************************************************)
(* SpecPipelineEof: one call of execute_pipeline_internal in which every   *)
(* pipe() and fork() succeeds, no signal is sent, and a program exits only *)
(* when it can read end-of-file on its standard input.  The kernel runs    *)
(* every process that can take a step: weak fairness.                      *)
(***************************************************************************)
NextPipelineEof ==
    \/ CreatePipes
    \/ ForkStage
    \/ ParentCloses
    \/ WaitStage
    \/ \E i \in 0..(MaxStages - 1) :
        \/ ChildSetup(i)
        \/ \E in_ok, out_ok, exec_ok \in BOOLEAN : ChildExec(i, in_ok, out_ok, exec_ok)
        \/ \E code \in ExitCodes : StageExitsAtEof(i, code)

SpecPipelineEof ==
    InitPipeline /\ [][NextPipelineEof]_vars /\ WF_vars(NextPipelineEof)
(***************************************************************************)
(* Vocabulary of the properties.                                           *)
(***************************************************************************)
Range(seq) == {seq[k] : k \in 1..Len(seq)}
Count(seq, x) == Cardinality({k \in 1..Len(seq) : seq[k] = x})

\* the exit-status convention: the exit code, or 128 + the signal number
ConventionalStatus(status) ==
    IF status.kind = "exit" THEN status.val ELSE 128 + status.val

\* The quoting state at the end of a line by the rules of the tokenizer
\* design: a backslash outside single quotes takes the next character, ' and "
\* open and close their quote unless inside the other one.
RECURSIVE QuoteStateAtEnd(_, _, _)
QuoteStateAtEnd(l, i, q) ==
    IF i > Len(l) THEN q
    ELSE IF q = "single"
    THEN QuoteStateAtEnd(l, i + 1, IF l[i] = "'" THEN "normal" ELSE q)
    ELSE IF l[i] = "\\" THEN QuoteStateAtEnd(l, i + 2, q)
    ELSE IF q = "double"
    THEN QuoteStateAtEnd(l, i + 1, IF l[i] = "\"" THEN "normal" ELSE q)
    ELSE QuoteStateAtEnd(l, i + 1,
             IF l[i] = "'" THEN "single" ELSE IF l[i] = "\"" THEN "double" ELSE q)

OpenQuoteAtEnd(l) == QuoteStateAtEnd(l, 1, "normal") /= "normal"

ReadEnd(k) == PipeEnd(2 * k)
WriteEnd(k) == PipeEnd(2 * k + 1)
Holds(c, j) == j \in c.fds \/ c.stdin = PipeEnd(j) \/ c.stdout = PipeEnd(j)
NumReports(out, p) == Cardinality({k \in 1..Len(out) : out[k].pid = p})

(***************************************************************************)
(* Properties.                                                             *)
(***************************************************************************)
\* C1: a line that reaches its end with a quote still open is a parse
\* failure: once the line has been handled, no process was forked and no
\* builtin ran for it.  (Checked under SpecLine; the code does not hold it.)
C1_UnterminatedQuoteRejected ==
    (trace.what /= "none" /\ OpenQuoteAtEnd(line))
        => (trace.what = "parse_error" /\ trace.nforks = 0)

\* the segment's Command names a program that is no builtin and resolves
Launchable(tokens) ==
    LET c == parse_single_command(tokens) IN
    /\ c /= <<>>
    /\ c[1].arguments /= <<>>
    /\ ~is_builtin(c[1].arguments[1])
    /\ find_executable(c[1].arguments[1]) /= EmptyStr

\* C2: once a line of N >= 2 segments, each naming a program that resolves,
\* has been run without a reported failure, N children were forked for it
\* and N-1 pipes were allocated.  (Checked under SpecLine; the code does not
\* hold it.)
C2_EverySegmentRuns ==
    LET parts == parse_pipeline(line)
        N == Len(parts)
    IN  (/\ trace.what = "external"
         /\ N >= 2
         /\ \A k \in 1..N : Launchable(parts[k])
         /\ trace.ret /= <<-1>>)
        => (trace.nforks = N /\ trace.npipes = N - 1)

\* C3: in execute_pipeline_internal the children are forked in stage order
\* 0, 1, ...; the orchestrator binds stage i's standard input to the read
\* end of pipe i-1 when i > 0 (else it stays the inherited one) and its
\* standard output to the write end of pipe i when i < N-1 (else inherited),
\* and to no other pipe end.
C3_StagesBoundInOrder ==
    /\ child_pids = [k \in 1..Len(child_pids) |-> k - 1]
    /\ \A i \in DOMAIN child : (child[i].st /= "none") <=> (i < Len(child_pids))
    /\ \A i \in DOMAIN child :
           (\/ child[i].st = "ready"
            \/ (child[i].st = "execd" /\ pipeline[i].input_file = EmptyStr
                                      /\ pipeline[i].output_file = EmptyStr))
           => /\ child[i].stdin = IF i > 0 THEN ReadEnd(i - 1) ELSE Inherited
              /\ child[i].stdout = IF i < NumStages - 1 THEN WriteEnd(i) ELSE Inherited

\* C3 witness: a middle stage of a three-stage pipeline has been bound
C3_Witness ==
    /\ NumStages = 3
    /\ child[1].st = "ready"
    /\ child[1].stdin = ReadEnd(0)
    /\ child[1].stdout = WriteEnd(1)

\* C4: a child that has exec'd holds no pipe descriptor except the ones
\* bound to its own standard input and output; the parent holds no pipe
\* descriptor once it waits; hence, once every child is past its setup and
\* the parent waits, the write end of pipe k is held by stage k alone and its
\* read end by stage k+1 alone.
C4_DescriptorDiscipline ==
    /\ \A i \in DOMAIN child :
           child[i].st = "execd"
           => /\ child[i].fds = {}
              /\ \A j \in PipeSlots :
                     Holds(child[i], j)
                     => \/ (i > 0 /\ PipeEnd(j) = ReadEnd(i - 1))
                        \/ (i < NumStages - 1 /\ PipeEnd(j) = WriteEnd(i))
    /\ ppc = "wait" => parent_fds = {}
    /\ (ppc = "wait" /\ \A i \in DOMAIN child : child[i].st /= "forked")
       => \A k \in 0..(num_pipes - 1) : \A i \in DOMAIN child :
              /\ Holds(child[i], 2 * k + 1) => i = k
              /\ Holds(child[i], 2 * k) => i = k + 1

\* C4 witness: all three children run their programs while the parent waits
C4_Witness ==
    /\ NumStages = 3
    /\ ppc = "wait"
    /\ \A i \in DOMAIN child : child[i].st = "execd"
    /\ Holds(child[1], 0) /\ Holds(child[1], 3)

\* C5: in a pipeline a stage that has exec'd reads from the pipe when it is
\* not the first stage and writes to the pipe when it is not the last one,
\* whatever input_file and output_file its Command has.  (The code does not
\* hold it.)
C5_RedirectionOnlyAtEnds ==
    \A i \in DOMAIN child :
        child[i].st = "execd"
        => /\ i > 0 => child[i].stdin = ReadEnd(i - 1)
           /\ i < NumStages - 1 => child[i].stdout = WriteEnd(i)

\* C6: when execute_pipeline_internal returns after forking its N children,
\* every child has been reaped and the value returned is the status of the
\* last stage alone: its exit code, or 128 + its signal.
C6_ReturnsLastStageStatus ==
    (ppc = "returned" /\ Len(child_pids) = NumStages)
        => /\ \A i \in DOMAIN child : child[i].st = "reaped"
           /\ pret = <<ConventionalStatus(child[NumStages - 1].status)>>

\* C6 witness: a three-stage pipeline returned 137 for a killed last stage
\* while the first stage exited with 127
C6_Witness ==
    /\ ppc = "returned"
    /\ NumStages = 3
    /\ child[0].status = Exited(127)
    /\ child[2].status = Signaled(9)
    /\ pret = <<137>>

\* C7: the shell leaves the wait for a foreground child only when that child
\* has terminated, the child is reaped by it, and execute_command returns
\* the child's exit code or 128 + its signal; a forked foreground command
\* that has not returned is being waited for.
C7_ForegroundWaits ==
    [][ /\ (pc = "fgwait" /\ pc' /= "fgwait")
           => /\ proc[fg_pid].state = "terminated"
              /\ proc'[fg_pid].state = "free"
              /\ trace'.ret = <<ConventionalStatus(proc[fg_pid].status)>>
        /\ (trace'.what = "external" /\ trace'.nforks = 1 /\ ~trace'.background
            /\ trace'.ret = <<>>)
           => (pc' = "fgwait" /\ proc'[fg_pid'].state /= "free")
      ]_vars

\* C7 witness: a foreground command returned 137 for a child killed by
\* signal 9
C7_Witness ==
    /\ trace.what = "external"
    /\ trace.nforks = 1
    /\ ~trace.background
    /\ trace.ret = <<137>>
    /\ pc = "prompt"

\* C8: a step that forks a child for a background command does not wait: the
\* shell is not in the foreground wait afterwards, the child is still
\* running, its pid is in the registry exactly once and was not there before,
\* and execute_command returned 0; a step that forks a child for a foreground
\* command adds no pid, and the pid being waited for is never in the registry.
C8_BackgroundNotWaited ==
    [][ /\ \A pid \in Pids :
               (proc[pid].state = "free" /\ proc'[pid].state /= "free")
               => IF parse_command(line')[1].background
                  THEN /\ pc' /= "fgwait"
                       /\ trace'.ret = <<0>>
                       /\ proc'[pid].state = "running"
                       /\ Count(background_processes_, pid) = 0
                       /\ Count(background_processes_', pid) = 1
                  ELSE /\ pc' = "fgwait"
                       /\ fg_pid' = pid
                       /\ Range(background_processes_') \subseteq Range(background_processes_)
        /\ pc' = "fgwait" => fg_pid' \notin Range(background_processes_')
      ]_vars

\* C8 witness: a background launch returned 0 and its child is still running
C8_Witness ==
    /\ trace.what = "external"
    /\ trace.background
    /\ trace.ret = <<0>>
    /\ background_processes_ /= <<>>
    /\ proc[background_processes_[Len(background_processes_)]].state = "running"

C10_OnlyForegroundBlocks ==
    /\ pc \in {"prompt", "fgwait", "exited"}
    /\ pc = "fgwait"
       => /\ fg_pid \in Pids
          /\ fg_pid \notin Range(background_processes_)
          /\ ~trace.background
    /\ pc = "prompt" => ENABLED EndOfInput

\* C10 witness: the session has shut down while a tracked background child
\* is still running
C10_Witness ==
    /\ pc = "exited"
    /\ swept
    /\ background_processes_ /= <<>>
    /\ \E p \in Range(background_processes_) : proc[p].state = "running"

(***************************************************************************)
(* Vocabulary of the grammar of the design, for lines without quotes and   *)
(* backslashes: segments are the spans between | characters and tokens are *)
(* the maximal runs of non-blank characters of a segment.                  *)
(***************************************************************************)
Plain(l) == \A k \in 1..Len(l) : l[k] \notin {"\"", "'", "\\"}
NoPipe(l) == \A k \in 1..Len(l) : l[k] /= "|"

\* the fields of l between the characters of seps, empty fields included
RECURSIVE SplitAt(_, _, _, _, _)
SplitAt(l, seps, i, cur, acc) ==
    IF i > Len(l) THEN Append(acc, cur)
    ELSE IF l[i] \in seps THEN SplitAt(l, seps, i + 1, EmptyStr, Append(acc, cur))
    ELSE SplitAt(l, seps, i + 1, Append(cur, l[i]), acc)

SegmentsOf(l) == SplitAt(l, {"|"}, 1, EmptyStr, <<>>)
WordsOf(s) ==
    SelectSeq(SplitAt(s, {" ", "\t", "\n", "\r"}, 1, EmptyStr, <<>>),
              LAMBDA w : w /= EmptyStr)

RedirectionOperators == {<<"<">>, <<">">>, <<">", ">">>}
BackgroundOperator == <<"&">>

\* the tokens of a segment that are left when every redirection operator
\* and its operand are taken out
RECURSIVE StripRedirections(_, _, _)
StripRedirections(w, i, acc) ==
    IF i > Len(w) THEN acc
    ELSE IF w[i] \in RedirectionOperators THEN StripRedirections(w, i + 2, acc)
    ELSE StripRedirections(w, i + 1, Append(acc, w[i]))

RemainingTokens(l) == StripRedirections(WordsOf(l), 1, <<>>)

HasEmptySegment(l) ==
    LET segs == SegmentsOf(l) IN
    /\ Len(segs) >= 2
    /\ \E k \in 1..Len(segs) : WordsOf(segs[k]) = <<>>

\* C11: when the line names a program that is no builtin and is not found
\* on PATH, the step that runs it reports "command not found", forks no
\* child (no pid leaves the free state, the shell does not wait), adds no
\* pid to the registry, whether or not the command ends in &, and
\* execute_command returns a non-zero value.  (Written as: a step for an
\* external command does all this, or else the program named is found.)
C11_NotFoundNoSpawn ==
    [][ trace'.what = "external"
        => \/ /\ trace'.err = "not_found"
              /\ trace'.nforks = 0
              /\ trace'.ret /= <<>>
              /\ trace'.ret[1] /= 0
              /\ \A p \in Pids : proc[p].state = "free" => proc'[p].state = "free"
              /\ Range(background_processes_') \subseteq Range(background_processes_)
              /\ pc' /= "fgwait"
           \/ LET c == parse_command(line') IN
              \/ c[1].arguments = <<>>
              \/ find_executable(c[1].arguments[1]) /= EmptyStr
      ]_vars

\* C11 witness: "nf &" was run while a background child is tracked: the
\* failure was reported, a non-zero value returned and no second pid tracked
C11_Witness ==
    /\ line = W_nf \o <<" ", "&">>
    /\ parse_command(line)[1].background
    /\ trace.what = "external"
    /\ trace.err = "not_found"
    /\ trace.ret = <<-1>>
    /\ Len(background_processes_) = 1
    /\ Cardinality({p \in Pids : proc[p].state /= "free"}) = 1

\* C12: no value returned by execute_command or by the pipeline
\* orchestrator is -1, and a command that was not found returns 127.
\* (The code does not hold it.)
C12_StatusConvention ==
    /\ trace.ret /= <<>> => trace.ret[1] /= -1
    /\ trace.err = "not_found" => trace.ret = <<127>>
    /\ pret /= <<>> => pret[1] /= -1

C14_StopsOnlyOnExitOrEof ==
    [][ LET c == parse_command(line')
            is_exit == /\ trace'.what = "builtin"
                       /\ c[1].arguments[1] = W_exit
                       /\ Len(c[1].arguments) <= 2
            is_eof == pc = "prompt" /\ running_ /\ trace' = NoTrace
        IN  /\ (running_ /\ ~running_') => is_exit
            /\ (pc /= "exited" /\ pc' = "exited")
               => ((is_exit /\ ~running_') \/ is_eof)
            /\ ~running_ => ~running_'
      ]_vars

\* C14 witness: exit with two arguments was rejected after an earlier line
\* was run, and the session is still at its prompt
C14_Witness ==
    /\ line = W_exit \o <<" ">> \o W_ls \o <<" ">> \o W_ls
    /\ trace.what = "builtin"
    /\ running_
    /\ pc = "prompt"
    /\ command_count >= 2

\* C15: when execute_pipeline_internal returns before all N children were
\* forked (pipe() or fork() failed), it returns a non-zero value, the
\* parent holds no pipe descriptor and every child already forked has been
\* reaped.  (The code does not hold it.)
C15_FailureLeavesNothingBehind ==
    (ppc = "returned" /\ Len(child_pids) < NumStages)
        => /\ pret /= <<>>
           /\ pret[1] /= 0
           /\ parent_fds = {}
           /\ \A i \in DOMAIN child : child[i].st \in {"none", "reaped"}

\* C16: no child is forked for a Command whose arguments are empty, neither
\* by execute_command nor for a stage of a pipeline.  (The code does not
\* hold it for the stages of a pipeline.)
C16_EmptyCommandNeverForked ==
    /\ trace.nforks > 0 => parse_command(line)[1].arguments /= <<>>
    /\ \A i \in DOMAIN child :
           pipeline[i].arguments = <<>> => child[i].st = "none"

\* C17: a line of one segment, without quotes, whose last token is <, > or
\* >> (the operator has no operand) is a parse failure and nothing is run
\* for it.  (The code does not hold it.)
C17_MissingOperandRejected ==
    LET w == WordsOf(line) IN
    (/\ trace.what /= "none"
     /\ Plain(line) /\ NoPipe(line)
     /\ w /= <<>>
     /\ w[Len(w)] \in RedirectionOperators)
    => (trace.what = "parse_error" /\ trace.nforks = 0)

\* C18: a line without quotes in which a segment has no token (a leading
\* |, a trailing |, or two | with no token between them) is a parse failure
\* and nothing is run for it.  (The code does not hold it.)
C18_EmptySegmentRejected ==
    (trace.what /= "none" /\ Plain(line) /\ HasEmptySegment(line))
    => (trace.what = "parse_error" /\ trace.nforks = 0)

\* C19: a line of one segment, without quotes, in which a token & stands
\* before the last of the tokens left after the redirections are removed, is
\* a parse failure and nothing is run for it.  (The code does not hold it.)
C19_MisplacedBackgroundRejected ==
    LET w == RemainingTokens(line) IN
    (/\ trace.what /= "none"
     /\ Plain(line) /\ NoPipe(line)
     /\ \E k \in 1..(Len(w) - 1) : w[k] = BackgroundOperator)
    => (trace.what = "parse_error" /\ trace.nforks = 0)

\* C20: for a line of one segment, without quotes: when the last of the
\* tokens left after the redirections are removed is &, whatever blanks
\* follow it, parse_command yields a Command with background = true that has
\* no argument &; when no token is &, the Command has background = false.
\* (The code does not hold it.)
C20_TrailingBackgroundMarker ==
    LET w == RemainingTokens(line)
        c == parse_command(line)
    IN  (/\ trace.what /= "none"
         /\ Plain(line) /\ NoPipe(line)
         /\ w /= <<>>)
        => /\ w[Len(w)] = BackgroundOperator
              => /\ c /= <<>>
                 /\ c[1].background
                 /\ BackgroundOperator \notin Range(c[1].arguments)
           /\ (\A k \in 1..Len(w) : w[k] /= BackgroundOperator)
              => (c = <<>> \/ ~c[1].background)

\* a token that is a literal word: no redirection operator and not &
IsWord(t) == t \notin RedirectionOperators /\ t /= BackgroundOperator

\* every redirection operator that has a next token has a word as operand
OperandsAreWords(w) ==
    \A k \in 1..(Len(w) - 1) : w[k] \in RedirectionOperators => IsWord(w[k + 1])

\* the position of the last operator of ops that has an operand, 0 if none
LastOperator(w, ops) ==
    LET ks == {k \in 1..(Len(w) - 1) : w[k] \in ops} IN
    IF ks = {} THEN 0 ELSE CHOOSE k \in ks : \A j \in ks : j <= k

LastOperand(w, ops) ==
    IF LastOperator(w, ops) = 0 THEN EmptyStr ELSE w[LastOperator(w, ops) + 1]

\* C21: for a segment in which the operators <, > and >> that have an
\* operand have a word as operand: input_file is the operand of the last <,
\* output_file the operand of the last > or >>, append_output says whether
\* that last one is >>, the fields are empty or false when there is no such
\* operator, and the words among the arguments are the words of the segment
\* without the operators' operands, in their order.
C21_RedirectionsExtracted ==
    LET w == WordsOf(line)
        c == parse_command(line)
        out == LastOperator(w, {<<">">>, <<">", ">">>})
    IN  (trace.what /= "none" /\ w /= <<>> /\ OperandsAreWords(w))
        => /\ c /= <<>>
           /\ c[1].input_file = LastOperand(w, {<<"<">>})
           /\ c[1].output_file = LastOperand(w, {<<">">>, <<">", ">">>})
           /\ c[1].append_output = (out /= 0 /\ w[out] = <<">", ">">>)
           /\ SelectSeq(c[1].arguments, IsWord) = SelectSeq(RemainingTokens(line), IsWord)

\* C21 witness: "ls > nf >> ls" without its program name: the later >> won
C21_Witness ==
    /\ line = JoinTokens(<< <<">">>, W_nf, <<">", ">">>, W_ls >>)
    /\ trace.what = "external"
    /\ parse_command(line)[1].output_file = W_ls
    /\ parse_command(line)[1].append_output
    /\ parse_command(line)[1].arguments = <<>>

(***************************************************************************)
(* The tokenizer of the design: in the Normal state blanks delimit tokens  *)
(* and ' and " open a quote; a quote is closed by the same character; a    *)
(* backslash takes the next character literally in the Normal state and    *)
(* inside double quotes and is an ordinary character inside single quotes; *)
(* quote characters are not part of the token; no token is empty.          *)
(***************************************************************************)
RECURSIVE RefScan(_, _, _, _, _)
RefScan(l, i, q, cur, toks) ==
    IF i > Len(l) THEN (IF cur /= EmptyStr THEN Append(toks, cur) ELSE toks)
    ELSE IF q = "single"
    THEN IF l[i] = "'" THEN RefScan(l, i + 1, "normal", cur, toks)
         ELSE RefScan(l, i + 1, q, Append(cur, l[i]), toks)
    ELSE IF l[i] = "\\" /\ i < Len(l)
    THEN RefScan(l, i + 2, q, Append(cur, l[i + 1]), toks)
    ELSE IF q = "double"
    THEN IF l[i] = "\"" THEN RefScan(l, i + 1, "normal", cur, toks)
         ELSE RefScan(l, i + 1, q, Append(cur, l[i]), toks)
    ELSE IF l[i] = "'" THEN RefScan(l, i + 1, "single", cur, toks)
    ELSE IF l[i] = "\"" THEN RefScan(l, i + 1, "double", cur, toks)
    ELSE IF isspace(l[i])
    THEN RefScan(l, i + 1, q, EmptyStr,
                 IF cur /= EmptyStr THEN Append(toks, cur) ELSE toks)
    ELSE RefScan(l, i + 1, q, Append(cur, l[i]), toks)

RefTokens(l) == RefScan(l, 1, "normal", EmptyStr, <<>>)

\* the arguments of the Command parsed from l (none on a parse failure)
ParsedArguments(l) ==
    LET c == parse_command(l) IN IF c = <<>> THEN <<>> ELSE c[1].arguments

OperatorChars == {"|", "<", ">", "&"}
HasChar(l, chars) == \E k \in 1..Len(l) : l[k] \in chars

\* every character of chars in l stands inside single or double quotes
RECURSIVE OnlyInQuotes(_, _, _, _)
OnlyInQuotes(l, chars, i, q) ==
    IF i > Len(l) THEN TRUE
    ELSE IF q = "normal"
    THEN /\ l[i] \notin chars
         /\ OnlyInQuotes(l, chars, i + 1,
                IF l[i] = "'" THEN "single" ELSE IF l[i] = "\"" THEN "double" ELSE q)
    ELSE OnlyInQuotes(l, chars, i + 1,
             IF (q = "single" /\ l[i] = "'") \/ (q = "double" /\ l[i] = "\"")
             THEN "normal" ELSE q)

\* C22: for a line with balanced quotes and without |, <, >, &, $ and
\* backslash, the arguments parsed are exactly the tokens of the design:
\* split at the blanks outside quotes, quote characters removed, blanks
\* inside quotes kept.  (The code does not hold it.)
C22_WordsSplitOutsideQuotes ==
    (/\ trace.what /= "none"
     /\ ~OpenQuoteAtEnd(line)
     /\ ~HasChar(line, OperatorChars \cup {"$", "\\"}))
    => ParsedArguments(line) = RefTokens(line)

\* C23: for a line with balanced quotes and without backslash in which |,
\* <, > and & occur only inside quotes: the line is not split into a
\* pipeline, no redirection field and no background flag is set, and every
\* token holding such a character is an argument as typed.  (The code does
\* not hold it.)
C23_QuotedOperatorsLiteral ==
    LET c == parse_command(line) IN
    (/\ trace.what /= "none"
     /\ ~OpenQuoteAtEnd(line)
     /\ ~HasChar(line, {"\\"})
     /\ HasChar(line, OperatorChars)
     /\ OnlyInQuotes(line, OperatorChars, 1, "normal"))
    => /\ c /= <<>>
       /\ ~c[1].is_pipeline
       /\ c[1].input_file = EmptyStr
       /\ c[1].output_file = EmptyStr
       /\ ~c[1].append_output
       /\ ~c[1].background
       /\ \A k \in 1..Len(RefTokens(line)) :
              HasChar(RefTokens(line)[k], OperatorChars)
              => RefTokens(line)[k] \in Range(c[1].arguments)

\* C24: for a line with a backslash, with balanced quotes, without |, <, >,
\* &, $ and not ending in a blank, the arguments parsed are the tokens of
\* the design: the backslash takes the next character literally outside
\* quotes and inside double quotes, and is an ordinary character inside
\* single quotes.  (The code does not hold it.)
C24_BackslashByQuoteState ==
    (/\ trace.what /= "none"
     /\ HasChar(line, {"\\"})
     /\ ~OpenQuoteAtEnd(line)
     /\ ~HasChar(line, OperatorChars \cup {"$"})
     /\ ~isspace(line[Len(line)]))
    => ParsedArguments(line) = RefTokens(line)

\* C26: for a line without quotes and backslash in which a token is && or
\* || and | and & occur in no other token: the line parses to one Command
\* that is no pipeline and no background command, and each && and || is one
\* of its arguments.  (The code does not hold it.)
C26_DoubledOperatorsLiteral ==
    LET w == WordsOf(line)
        c == parse_command(line)
        Doubled == {<<"&", "&">>, <<"|", "|">>}
    IN  (/\ trace.what /= "none"
         /\ Plain(line)
         /\ \E k \in 1..Len(w) : w[k] \in Doubled
         /\ \A k \in 1..Len(w) : w[k] \in Doubled \/ ~HasChar(w[k], {"|", "&"}))
        => /\ c /= <<>>
           /\ ~c[1].is_pipeline
           /\ ~c[1].background
           /\ \A k \in 1..Len(w) : w[k] \in Doubled => w[k] \in Range(c[1].arguments)

(***************************************************************************)
(* The variable expander of the design (4.4), over the environment of the  *)
(* model.                                                                  *)
(***************************************************************************)
IsNameChar(c) == isalnum(c) \/ c = "_"

\* the first position >= from that holds a character of stop, or Len(t) + 1
FirstStop(t, from, stop) ==
    LET ks == {k \in from..Len(t) : t[k] \in stop} IN
    IF ks = {} THEN Len(t) + 1 ELSE CHOOSE k \in ks : \A j \in ks : k <= j

\* the first position >= from that holds no name character, or Len(t) + 1
NameStop(t, from) ==
    LET ks == {k \in from..Len(t) : ~IsNameChar(t[k])} IN
    IF ks = {} THEN Len(t) + 1 ELSE CHOOSE k \in ks : \A j \in ks : k <= j

\* out: the expanded token; bare: the number of $ that start no reference
RECURSIVE RefExpandScan(_, _, _, _)
RefExpandScan(t, i, out, bare) ==
    IF i > Len(t) THEN [out |-> out, bare |-> bare]
    ELSE IF t[i] /= "$" THEN RefExpandScan(t, i + 1, Append(out, t[i]), bare)
    ELSE IF i < Len(t) /\ t[i + 1] = "{"
    THEN LET e == FirstStop(t, i + 2, {"}"}) IN
         RefExpandScan(t, IF e <= Len(t) THEN e + 1 ELSE e,
                       out \o get_environment_variable(SubSeq(t, i + 2, e - 1)), bare)
    ELSE LET e == NameStop(t, i + 1) IN
         IF e = i + 1
         THEN RefExpandScan(t, i + 1, Append(out, "$"), bare + 1)
         ELSE RefExpandScan(t, e, out \o get_environment_variable(SubSeq(t, i + 1, e - 1)), bare)

RefExpand(t) == RefExpandScan(t, 1, EmptyStr, 0).out
BareDollars(t) == RefExpandScan(t, 1, EmptyStr, 0).bare

\* C25: for a line with balanced quotes in which every $ stands inside
\* quotes and is followed by { or by a name character, the arguments are the
\* tokens as typed, quote characters removed: no $NAME and no ${NAME} is
\* replaced.  (The code does not hold it.)
C25_QuotedDollarLiteral ==
    (/\ trace.what /= "none"
     /\ ~OpenQuoteAtEnd(line)
     /\ HasChar(line, {"$"})
     /\ OnlyInQuotes(line, {"$"}, 1, "normal")
     /\ \A k \in 1..Len(RefTokens(line)) : BareDollars(RefTokens(line)[k]) = 0)
    => ParsedArguments(line) = RefTokens(line)

\* C27: for a line that is one token without quotes, the argument is the
\* token in which each $NAME and each ${NAME} (closed by the end of the
\* token when } is missing) is replaced by the value of NAME, or by nothing
\* when NAME is unset, and every other character is copied unchanged, a
\* value not being scanned again; a token without $ is unchanged.  (The code
\* does not hold it.)
C27_ReferencesReplaced ==
    (trace.what /= "none" /\ ~HasChar(line, {"'"}))
    => /\ ParsedArguments(line) = <<RefExpand(line)>>
       /\ ~HasChar(line, {"$"}) => ParsedArguments(line) = <<line>>

\* C28: for a line that is one token without quotes, the argument holds as
\* many $ as the token has $ that are followed neither by { nor by a name
\* character (the values of the variables hold no $): each of them is
\* emitted literally.  (The code does not hold it.)
C28_BareDollarLiteral ==
    (trace.what /= "none" /\ ~HasChar(line, {"'"}) /\ BareDollars(line) > 0)
    => /\ Len(ParsedArguments(line)) = 1
       /\ Count(ParsedArguments(line)[1], "$") = BareDollars(line)

\* the entries of PATH that name a directory, in order
PathDirectories(path) ==
    SelectSeq(SplitAt(path, {":"}, 1, EmptyStr, <<>>), LAMBDA d : d /= EmptyStr)

\* C29: the value find_executable returns: for a name with a / the name
\* itself when it is executable and not-found (the empty path) otherwise,
\* whatever PATH is; for a name without /, dir/name for the first directory
\* of PATH, in PATH order, for which that file is executable, and not-found
\* exactly when no directory of PATH has one.
C29_FirstPathMatchWins ==
    executable_path /= <<>>
    => LET dirs == PathDirectories(path_env)
           candidate(k) == dirs[k] \o <<"/">> \o command_name
           hits == {k \in 1..Len(dirs) : candidate(k) \in files}
       IN  IF HasChar(command_name, {"/"})
           THEN executable_path[1] = (IF command_name \in files THEN command_name ELSE EmptyStr)
           ELSE /\ (executable_path[1] = EmptyStr) <=> (hits = {})
                /\ hits /= {}
                   => \E k \in hits : /\ executable_path[1] = candidate(k)
                                      /\ \A j \in hits : k <= j

\* C29 witness: with PATH=/a:/b and ls executable only at /b/ls, the name ls
\* resolved to /b/ls
C29_Witness ==
    /\ path_env = <<"/", "a", ":", "/", "b">>
    /\ files = {<<"/", "b", "/", "l", "s">>}
    /\ command_name = W_ls
    /\ executable_path = << <<"/", "b", "/", "l", "s">> >>

\* C30: when every pipe() and fork() succeeds and every program exits once
\* it reads end-of-file on its standard input, execute_pipeline_internal
\* eventually returns with every child reaped, whatever the order in which
\* the parent and the children run: no stage waits for ever for the end of
\* a pipe whose write end another process keeps open.
C30_PipelineReturns ==
    <>(ppc = "returned" /\ \A i \in DOMAIN child : child[i].st = "reaped")

\* C30 witness: a pipeline of three plain programs has returned, each
\* program having exited with 0 after the end of its input
C30_Witness ==
    /\ ppc = "returned"
    /\ NumStages = 3
    /\ \A i \in DOMAIN child :
           /\ pipeline[i] = CmdPlain
           /\ child[i].st = "reaped"
           /\ child[i].status = Exited(0)
    /\ pret = <<0>>

\* p is a background child in the registry of the ProcessManager
Registered(p) == p \in Range(background_processes_)

ArgumentsBeforeExpansion(l) ==
    LET parts == parse_pipeline(l) IN
    IF l = EmptyStr \/ parts = <<>> THEN <<>>
    ELSE LET r == parse_redirection(Command, parts[1])
         IN  parse_background(r.command, r.tokens).tokens

\* C32: for a line without quote characters and without backslash: no token
\* of a segment and no argument of the Command before variable expansion is
\* the empty string; a blank at the end of the line changes no argument;
\* and when the line has no | the tokens of its segment are the tokens
\* tokenize_with_quotes gives for the line.  (The code does not hold it.)
C32_NoEmptyToken ==
    LET parts == parse_pipeline(line)
        args == ArgumentsBeforeExpansion(line)
        tokens == tokenize_with_quotes(line)
    IN  (trace.what /= "none" /\ Plain(line))
        => /\ \A s \in 1..Len(parts) : \A k \in 1..Len(parts[s]) :
                  parts[s][k] /= EmptyStr
           /\ \A k \in 1..Len(args) : args[k] /= EmptyStr
           /\ (line /= EmptyStr /\ isspace(line[Len(line)]))
                  => ParsedArguments(line)
                         = ParsedArguments(SubSeq(line, 1, Len(line) - 1))
           /\ NoPipe(line)
                  => parts = IF tokens = <<>> THEN <<>> ELSE <<tokens>>
=============================================================================
